---- MODULE Spec2Model ----
(***************************************************************************)
(* termbg: terminal background colour query.                               *)
(*                                                                         *)
(* A state-machine model of src/src/lib.rs: the public calls rgb(),        *)
(* theme() and latency(), the raw-mode guard of from_xterm and             *)
(* xterm_latency, the read loop of query_xterm, the decoders of the reply, *)
(* and terminal() with the process-wide VT flag, called from threads.      *)
(*                                                                         *)
(* Text is a sequence of one-character strings.  Time is counted in poll   *)
(* quanta (one unit = the 100 ms of the poll in query_xterm).  A result is *)
(* a record [tag, val]: tag "ok" carries <<r, g, b>>, the other tags are   *)
(* the Error variants ("io" carries the io::ErrorKind), "dur" is a         *)
(* Duration, "panic" an unwinding panic and "none" no result yet.          *)
(***************************************************************************)
EXTENDS Integers, Sequences, FiniteSets, TLC

----------------------------------------------------------------------------
(* Bounds of the model *)

\* largest timeout a caller passes, in poll quanta
MaxTimeout == 1
\* longest colour group the terminal sends in the decoder harness
MaxGroupLen == 5
\* most bytes the terminal sends in answer to the latency query
MaxReply == 2
\* how long (in quanta) the model follows a read that blocks past the deadline
MaxBlock == 2

(* Program constants *)

\* poll(Duration::from_millis(100)): one quantum
PollQuantum == 1
\* "rgb:".len(), the `+ 4` of decode_unterminated and extract_rgb
MarkerLen == 4
\* u16::MAX + 1
U16 == 65536

----------------------------------------------------------------------------
(* Results *)

Res(tag, val) == [tag |-> tag, val |-> val]
NoRes == Res("none", <<>>)
OkRgb(r, g, b) == Res("ok", <<r, g, b>>)
ErrParse == Res("parse", <<>>)
ErrUnsupported == Res("unsupported", <<>>)
ErrIo == Res("io", <<"Other">>)
ErrTimedOut == Res("io", <<"TimedOut">>)
Panicked == Res("panic", <<>>)
OkDuration(d) == Res("dur", <<d>>)

IsOk(x) == x.tag \in {"ok", "dur"}

\* overflow-checks on (debug profile) or off (release profile)
Builds == {"debug", "release"}

----------------------------------------------------------------------------
(* Text helpers: str::find, str::split, str::splitn *)

Marker == <<"r", "g", "b", ":">>

\* index (from 1) of the first occurrence of pat in s, 0 when there is none
Find(s, pat) ==
    LET hits == {i \in 1..(Len(s) - Len(pat) + 1) :
                    SubSeq(s, i, i + Len(pat) - 1) = pat}
    IN  IF hits = {} THEN 0 ELSE CHOOSE i \in hits : \A j \in hits : i <= j

Contains(s, pat) == Find(s, pat) # 0

RECURSIVE SplitN(_, _, _)
\* s.splitn(n, sep): at most n pieces, the last one holding the rest
SplitN(n, s, sep) ==
    LET i == Find(s, <<sep>>)
    IN  IF n <= 1 \/ i = 0
        THEN <<s>>
        ELSE <<SubSeq(s, 1, i - 1)>> \o SplitN(n - 1, SubSeq(s, i + 1, Len(s)), sep)

\* s.split(sep): every piece
Split(s, sep) == SplitN(Len(s) + 1, s, sep)

----------------------------------------------------------------------------
(* decode_x11_color *)

HexChars == <<"0", "1", "2", "3", "4", "5", "6", "7", "8", "9",
              "a", "b", "c", "d", "e", "f">>
HexUpper == <<"0", "1", "2", "3", "4", "5", "6", "7", "8", "9",
              "A", "B", "C", "D", "E", "F">>

IsHexDigit(c) == \E i \in 1..16 : HexChars[i] = c \/ HexUpper[i] = c
DigitVal(c) == (CHOOSE i \in 1..16 : HexChars[i] = c \/ HexUpper[i] = c) - 1

RECURSIVE HexAcc(_, _)
\* the digit loop of u16::from_str_radix: -1 stands for Err
HexAcc(s, acc) ==
    IF s = <<>> THEN acc
    ELSE IF ~IsHexDigit(Head(s)) THEN -1
    ELSE LET v == acc * 16 + DigitVal(Head(s))
         IN  IF v >= U16 THEN -1 ELSE HexAcc(Tail(s), v)

\* u16::from_str_radix(s, 16): a leading '+' is accepted, the empty text is not
from_str_radix(s) ==
    LET digits == IF s # <<>> /\ Head(s) = "+" THEN Tail(s) ELSE s
    IN  IF digits = <<>> THEN -1 ELSE HexAcc(digits, 0)

RECURSIVE Pow2(_)
Pow2(n) == IF n = 0 THEN 1 ELSE 2 * Pow2(n - 1)

\* ret << ((4 - len) * 4) on a u16, len: u32.  For len > 4 the subtraction
\* overflows: a panic with overflow checks, and without them the amount wraps
\* modulo 2^32 and the shift keeps its low four bits.
ShiftWrapped(len) == (12 * len + 16) % 16

\* a decode_hex that shifts by (4 - len) bits, not by (4 - len) hex digits
decode_hex_ShiftByBits(s, build) ==
    LET len == Len(s)
        ret == from_str_radix(s)
    IN  IF ret = -1 THEN ErrParse
        ELSE IF len <= 4 THEN Res("ok", <<(ret * Pow2(4 - len)) % U16>>)
        ELSE IF build = "debug" THEN Panicked
        ELSE Res("ok", <<(ret * Pow2(ShiftWrapped(len))) % U16>>)

decode_hex(s, build) ==
    LET len == Len(s)
        ret == from_str_radix(s)
    IN  IF ret = -1 THEN ErrParse
        ELSE IF len <= 4 THEN Res("ok", <<(ret * Pow2((4 - len) * 4)) % U16>>)
        ELSE IF build = "debug" THEN Panicked
        ELSE Res("ok", <<(ret * Pow2(ShiftWrapped(len))) % U16>>)

decode_x11_color(s, build) ==
    LET rgb == Split(s, "/")
    IN  IF Len(rgb) < 3 THEN ErrParse
        ELSE LET r == decode_hex(rgb[1], build)
                 g == decode_hex(rgb[2], build)
                 b == decode_hex(rgb[3], build)
             IN  IF r.tag # "ok" THEN r
                 ELSE IF g.tag # "ok" THEN g
                 ELSE IF b.tag # "ok" THEN b
                 ELSE OkRgb(r.val[1], g.val[1], b.val[1])

\* extract_rgb
extract_rgb(response, build) ==
    LET at == Find(response, Marker)
    IN  IF at = 0 THEN ErrParse
        ELSE decode_x11_color(SubSeq(response, at + MarkerLen, Len(response)), build)

\* parse_response
parse_response(response, build) == extract_rgb(response, build)

\* a salvage that keeps the whole of fragment 3 (no cut to frag_len)
decode_unterminated_uncut(response) ==
    LET resp_start == Find(response, Marker)
        mid == resp_start + MarkerLen
        raw_rgb_slice == SubSeq(response, mid, Len(response))
        fragments == SplitN(3, raw_rgb_slice, "/")
        frag_len == Len(fragments[1])
    IN  IF resp_start = 0 THEN ErrParse
        ELSE IF Len(fragments) < 3 THEN ErrParse
        ELSE IF Len(fragments[2]) # frag_len \/ Len(fragments[3]) < frag_len
             THEN ErrParse
        ELSE Res("ok", SubSeq(response, resp_start, Len(response)))

\* a salvage without the tests on the fragment lengths: the slice is taken
\* whenever it is in range, and slicing out of range panics
decode_unterminated_unchecked(response) ==
    LET resp_start == Find(response, Marker)
        mid == resp_start + MarkerLen
        raw_rgb_slice == SubSeq(response, mid, Len(response))
        fragments == SplitN(3, raw_rgb_slice, "/")
        frag_len == Len(fragments[1])
        last == mid - 1 + frag_len * 3 + 2
    IN  IF resp_start = 0 THEN ErrParse
        ELSE IF Len(fragments) < 3 THEN ErrParse
        ELSE IF last > Len(response) THEN Panicked
        ELSE Res("ok", SubSeq(response, resp_start, last))

\* decode_unterminated: Res("ok", slice) or a Parse error
decode_unterminated(response) ==
    LET resp_start == Find(response, Marker)
        mid == resp_start + MarkerLen
        raw_rgb_slice == SubSeq(response, mid, Len(response))
        fragments == SplitN(3, raw_rgb_slice, "/")
        frag_len == Len(fragments[1])
    IN  IF resp_start = 0 THEN ErrParse
        ELSE IF Len(fragments) < 3 THEN ErrParse
        ELSE IF Len(fragments[2]) # frag_len \/ Len(fragments[3]) < frag_len
             THEN ErrParse
        ELSE Res("ok", SubSeq(response, resp_start, mid - 1 + frag_len * 3 + 2))


----------------------------------------------------------------------------
(* Environment fallbacks: from_env_colorfgbg, from_winapi *)

DecChars == <<"0", "1", "2", "3", "4", "5", "6", "7", "8", "9">>
IsDecDigit(c) == \E i \in 1..10 : DecChars[i] = c
DecVal(c) == (CHOOSE i \in 1..10 : DecChars[i] = c) - 1
\* u8::MAX
U8Max == 255

RECURSIVE DecAcc(_, _)
\* the digit loop of u8::from_str_radix(_, 10): -1 stands for Err
DecAcc(s, acc) ==
    IF s = <<>> THEN acc
    ELSE IF ~IsDecDigit(Head(s)) THEN -1
    ELSE LET v == acc * 10 + DecVal(Head(s))
         IN  IF v > U8Max THEN -1 ELSE DecAcc(Tail(s), v)

u8_from_str_radix(s) ==
    LET digits == IF s # <<>> /\ Head(s) = "+" THEN Tail(s) ELSE s
    IN  IF digits = <<>> THEN -1 ELSE DecAcc(digits, 0)

\* rxvt default color table, entries 0..15
RxvtPalette ==
    << <<0, 0, 0>>, <<205, 0, 0>>, <<0, 205, 0>>, <<205, 205, 0>>,
       <<0, 0, 238>>, <<205, 0, 205>>, <<0, 205, 205>>, <<229, 229, 229>>,
       <<127, 127, 127>>, <<255, 0, 0>>, <<0, 255, 0>>, <<255, 255, 0>>,
       <<92, 92, 255>>, <<255, 0, 255>>, <<0, 255, 255>>, <<255, 255, 255>> >>

\* the value of COLORFGBG: [set |-> FALSE] or [set |-> TRUE, text |-> ...]
NoVar == [set |-> FALSE, text |-> <<>>]
Var(text) == [set |-> TRUE, text |-> text]

\* a from_env_colorfgbg that takes the first field (the foreground)
from_env_colorfgbg_FirstField(var) ==
    IF ~var.set THEN ErrUnsupported
    ELSE LET fgbg == Split(var.text, ";")
         IN  IF Len(fgbg) < 2 THEN ErrUnsupported
             ELSE LET bg == u8_from_str_radix(fgbg[1])
                      c  == IF bg \in 0..15 THEN RxvtPalette[bg + 1] ELSE <<0, 0, 0>>
                  IN  IF bg = -1 THEN ErrParse
                      ELSE OkRgb(c[1] * 256, c[2] * 256, c[3] * 256)

from_env_colorfgbg(var) ==
    IF ~var.set THEN ErrUnsupported
    ELSE LET fgbg == Split(var.text, ";")
         IN  IF Len(fgbg) < 2 THEN ErrUnsupported
             ELSE LET bg == u8_from_str_radix(fgbg[2])
                      c  == IF bg \in 0..15 THEN RxvtPalette[bg + 1] ELSE <<0, 0, 0>>
                  IN  IF bg = -1 THEN ErrParse
                      ELSE OkRgb(c[1] * 256, c[2] * 256, c[3] * 256)

\* the legacy console table of from_winapi, by (r, g, b, i) attribute bits
from_winapi(r, g, b, i) ==
    LET lo(x) == IF x THEN 128 ELSE 0
        hi(x) == IF x THEN 255 ELSE 0
        c == IF ~i THEN (IF r /\ g /\ b THEN <<192, 192, 192>>
                         ELSE <<lo(r), lo(g), lo(b)>>)
             ELSE (IF ~r /\ ~g /\ ~b THEN <<128, 128, 128>>
                   ELSE <<hi(r), hi(g), hi(b)>>)
    IN  OkRgb(c[1] * 256, c[2] * 256, c[3] * 256)

\* a resolution that prefers the fallback (what rgb() must not do)
Resolve_FallbackFirst(rgb, fallback) ==
    IF IsOk(fallback) THEN fallback ELSE rgb

\* the resolution at the end of rgb(): primary, else fallback, else primary
Resolve(rgb, fallback) ==
    IF IsOk(rgb) THEN rgb
    ELSE IF IsOk(fallback) THEN fallback
    ELSE rgb

----------------------------------------------------------------------------
(* terminal() *)

\* str::starts_with
StartsWith(s, prefix) ==
    Len(s) >= Len(prefix) /\ SubSeq(s, 1, Len(prefix)) = prefix

\* values of TERM: tmux-x, tmux, screen, screen.x, xterm, xscreen
TermTexts ==
    {<<"t", "m", "u", "x", "-", "x">>, <<"t", "m", "u", "x">>,
     <<"s", "c", "r", "e", "e", "n">>, <<"s", "c", "r", "e", "e", "n", ".", "x">>,
     <<"x", "t", "e", "r", "m">>, <<"x", "s", "c", "r", "e", "e", "n">>}

\* the environment variables terminal() reads: whether INSIDE_EMACS and TMUX
\* are set, whether TERM_PROGRAM is "vscode", and TERM (unset, or its text)
Envs == [emacs : BOOLEAN, tmux : BOOLEAN, vscode : BOOLEAN,
         term : {NoVar} \cup {Var(t) : t \in TermTexts}]

\* a terminal() that looks at TMUX and TERM before INSIDE_EMACS
terminal_posix_TmuxFirst(env) ==
    IF env.tmux \/ (env.term.set /\ StartsWith(env.term.text, <<"t", "m", "u", "x", "-">>))
    THEN "Tmux"
    ELSE IF env.emacs THEN "Emacs"
    ELSE IF env.term.set /\ StartsWith(env.term.text, <<"s", "c", "r", "e", "e", "n">>)
    THEN "Screen"
    ELSE "XtermCompatible"

\* #[cfg(not(target_os = "windows"))] terminal()
terminal_posix(env) ==
    IF env.emacs THEN "Emacs"
    ELSE IF env.tmux \/ (env.term.set /\ StartsWith(env.term.text, <<"t", "m", "u", "x", "-">>))
    THEN "Tmux"
    ELSE LET is_screen == IF env.term.set
                          THEN StartsWith(env.term.text, <<"s", "c", "r", "e", "e", "n">>)
                          ELSE FALSE
         IN  IF is_screen THEN "Screen" ELSE "XtermCompatible"

\* #[cfg(target_os = "windows")] terminal(); vt is the value of
\* enable_virtual_terminal_processing(), asked only when needs_vt_probe(env)
needs_vt_probe(env) == ~env.vscode /\ ~env.emacs

terminal_windows(env, vt) ==
    IF env.vscode THEN "XtermCompatible"
    ELSE IF env.emacs THEN "Emacs"
    ELSE IF vt THEN "XtermCompatible"
    ELSE "Windows"

\* the threads of the process that call into the library at the same time
Threads == {"t1", "t2"}

\* the environment of a thread that is not inside terminal()
NoEnv == [emacs |-> FALSE, tmux |-> FALSE, vscode |-> FALSE, term |-> NoVar]

\* a thread's record: where it is (pc), what it called (op), the environment
\* its terminal() read (env), what terminal() returned (ret), and what its last
\* enable_virtual_terminal_processing() returned (got)
ThreadIdle == [pc |-> "idle", op |-> "none", env |-> NoEnv, ret |-> "none", got |-> "none"]

----------------------------------------------------------------------------
(* Input events (crossterm::event::Event) *)

Ev(kind, char, c, mods) == [kind |-> kind, char |-> char, c |-> c, mods |-> mods]
Key(c, mods) == Ev("key", TRUE, c, mods)
NoEvent == Ev("none", FALSE, "", "NONE")

\* the first arm without its last pattern (BEL read as the character 0x07)
IsTerminator_NoRawBel(e) ==
    /\ e.kind = "key" /\ e.char
    /\ \/ e.c = "\\" /\ e.mods \in {"ALT", "NONE"}
       \/ e.c = "g" /\ e.mods = "CONTROL"

\* the first arm of the match in query_xterm: ST (Alt+\ or \), BEL (Ctrl+g or 0x07)
IsTerminator(e) ==
    /\ e.kind = "key" /\ e.char
    /\ \/ e.c = "\\" /\ e.mods \in {"ALT", "NONE"}
       \/ e.c = "g" /\ e.mods = "CONTROL"
       \/ e.c = "BEL" /\ e.mods = "NONE"

\* a second arm that ignores the modifiers
IsPushed_AnyModifier(e) ==
    ~IsTerminator(e) /\ e.kind = "key" /\ e.char

\* the second arm: (KeyCode::Char(c), KeyModifiers::NONE)
IsPushed(e) ==
    ~IsTerminator(e) /\ e.kind = "key" /\ e.char /\ e.mods = "NONE"

Terminators == {Key("\\", "ALT"), Key("\\", "NONE"), Key("g", "CONTROL"),
                Key("BEL", "NONE")}
\* events of the third arm, and events that are no key events
IgnoredEvents == {Key("x", "SHIFT"), Ev("key", FALSE, "Enter", "NONE"),
                  Ev("resize", FALSE, "", "NONE")}

\* every prefix of every text of S
Prefixes(S) ==
    LET lens == {Len(s) : s \in S}
        longest == CHOOSE n \in lens : \A m \in lens : m <= n
    IN  {SubSeq(s, 1, IF n < Len(s) THEN n ELSE Len(s)) : s \in S, n \in 0..longest}

\* the replies the terminal sends during rgb(): the shape of section 6
ApiReplies == {Marker \o <<"f", "/", "f", "/", "f">>}
ApiBuffers == Prefixes(ApiReplies)

RECURSIVE Rep(_, _)
Rep(c, n) == IF n = 0 THEN <<>> ELSE <<c>> \o Rep(c, n - 1)

\* the colour groups of the decoder harness: runs of f, one over-long run of 0,
\* a group that is no hex number
Groups == {Rep("f", n) : n \in 0..MaxGroupLen} \cup {Rep("0", MaxGroupLen), <<"x">>}
Tails == {<<>>, <<"x">>, <<"/", "f">>}
Bodies == {g1 \o <<"/">> \o g2 \o <<"/">> \o g3 \o t :
              g1 \in Groups, g2 \in Groups, g3 \in Groups, t \in Tails}
\* a reply as it is read: the ';' that ends "]11;", the marker, the body; and
\* two odd ones, without the ';' and without the marker
QReplies == {<<";">> \o Marker \o b : b \in Bodies}
                \cup {Marker \o <<"f", "/", "f", "/", "f">>, <<"f", "/", "f", "/", "f">>}
QBuffers == Prefixes(QReplies)

\* the characters a reply is made of, and the events that carry them
Alphabet == {"r", "g", "b", ":", "/", "f", "0", "8", "x", ";"}
TextEvents == {Key(c, "NONE") : c \in Alphabet}

----------------------------------------------------------------------------
(* stdin.rs: descriptor 0 and set_blocking *)

\* descriptor 0 at the start of the process: open and blocking.  open and
\* nonblock are the descriptor's state (O_NONBLOCK); adapter tells what became
\* of the last Stdin; wasOpen and before are the descriptor's state when
\* stdin() was called; got counts the bytes poll_read delivered and last is
\* its last outcome.
Fd0Start == [open |-> TRUE, nonblock |-> FALSE, wasOpen |-> TRUE, before |-> FALSE,
             adapter |-> "none", got |-> 0, last |-> "none"]

\* set_blocking(0, blocking): fcntl(F_GETFL) then fcntl(F_SETFL); on a closed
\* descriptor F_GETFL fails
set_blocking(f, blocking, getOk, setOk) ==
    IF ~f.open \/ ~getOk THEN [f |-> f, ok |-> FALSE]
    ELSE IF ~setOk THEN [f |-> f, ok |-> FALSE]
    ELSE [f |-> [f EXCEPT !.nonblock = ~blocking], ok |-> TRUE]

\* a File that owns descriptor 0 is dropped: close(0)
DropFile(f) == [f EXCEPT !.open = FALSE]

----------------------------------------------------------------------------
(* State *)

VARIABLES
    plat,       \* "posix" or "windows": the target the crate is built for
    raw,        \* the terminal's raw-mode flag
    vtMemo,     \* ENABLE_VT_PROCESSING (OnceLock<bool>): "unset", "yes", "no"
    conVt,      \* the console's ENABLE_VIRTUAL_TERMINAL_PROCESSING mode bit
    probes,     \* how many times the closure of get_or_init has run
    thr,        \* per thread: its call of terminal() / enable_virtual_terminal_processing()
    input,      \* the text a function called on its own was given (unit-test style)
    fd0,        \* file descriptor 0 and the Stdin adapter of stdin.rs
    op,         \* the call in progress, or the last one: "rgb", "latency", "query"
    pc,         \* where the call is
    term,       \* terminal()'s answer in this call
    timeout,    \* the timeout argument
    rawAtCall,  \* the raw-mode flag when the call was made
    rawBefore,  \* raw_before
    out,        \* what was written to stderr / the writer, in order
    response,   \* response
    elapsed,    \* start_time.elapsed()
    lastEvent,  \* the event the last poll of this call brought, NoEvent if none
    endedBy,    \* what ended the read loop: "terminator", "deadline", "error"
    pending,    \* how many more reads of stdin will return (latency)
    res,        \* the result of from_xterm's / xterm_latency's body
    P,          \* rgb(): the primary result `rgb`
    F,          \* rgb(): `fallback`
    ret,        \* what the call returned
    guardLog    \* what the deferred guard did, in order

vars == <<plat, raw, vtMemo, conVt, probes, thr, input, fd0, op, pc, term, timeout, rawAtCall, rawBefore,
          out, response, elapsed, lastEvent, endedBy, pending, res, P, F, ret,
          guardLog>>

\* the variables of the call in progress on the main thread
callVars == <<raw, op, pc, term, timeout, rawAtCall, rawBefore, out, response,
              elapsed, lastEvent, endedBy, pending, res, P, F, ret, guardLog>>

Timeouts == 0..MaxTimeout

Init ==
    /\ plat \in {"posix", "windows"}
    /\ raw \in BOOLEAN
    /\ vtMemo = "unset"
    /\ conVt = FALSE
    /\ probes = 0
    /\ thr = [t \in Threads |-> ThreadIdle]
    /\ input = NoVar
    /\ fd0 = Fd0Start
    /\ op = "none"
    /\ pc = "idle"
    /\ term = "XtermCompatible"
    /\ timeout = 0
    /\ rawAtCall = raw
    /\ rawBefore = FALSE
    /\ out = <<>>
    /\ response = <<>>
    /\ elapsed = 0
    /\ lastEvent = NoEvent
    /\ endedBy = "none"
    /\ pending = 0
    /\ res = NoRes
    /\ P = NoRes
    /\ F = NoRes
    /\ ret = NoRes
    /\ guardLog = <<>>

\* the decoder harness: query_xterm called directly, as the unit tests call it
InitQ == Init /\ plat = "posix" /\ raw = FALSE

\* what every call starts from
Begin(o, t) ==
    /\ op' = o
    /\ term' = "XtermCompatible"
    /\ timeout' = t
    /\ rawAtCall' = raw
    /\ rawBefore' = FALSE
    /\ out' = <<>>
    /\ response' = <<>>
    /\ elapsed' = 0
    /\ lastEvent' = NoEvent
    /\ endedBy' = "none"
    /\ pending' = 0
    /\ res' = NoRes
    /\ P' = NoRes
    /\ F' = NoRes
    /\ ret' = NoRes
    /\ guardLog' = <<>>

----------------------------------------------------------------------------
(* enable_virtual_terminal_processing *)

\* the value the call returns: the memo, or the probe's outcome when unset
VtValue(probeOk) == IF vtMemo = "unset" THEN probeOk ELSE vtMemo = "yes"

\* the call's effect: the first call stores the outcome; a successful
\* SetConsoleMode sets the console's mode bit
VtCall(probeOk) ==
    /\ vtMemo' = IF vtMemo = "unset" THEN (IF probeOk THEN "yes" ELSE "no") ELSE vtMemo
    /\ conVt' = IF vtMemo = "unset" /\ probeOk THEN TRUE ELSE conVt
    /\ probes' = IF vtMemo = "unset" THEN probes + 1 ELSE probes

\* terminal() as the call in progress sees it
TerminalOf(env, probeOk) ==
    IF plat = "posix" THEN terminal_posix(env)
    ELSE terminal_windows(env, VtValue(probeOk))

TerminalEffect(env, probeOk) ==
    IF plat = "windows" /\ needs_vt_probe(env)
    THEN VtCall(probeOk)
    ELSE UNCHANGED <<vtMemo, conVt, probes>>

----------------------------------------------------------------------------
(* terminal() and enable_virtual_terminal_processing() on several threads *)

\* get_or_init hands v to thread t: enable_virtual_terminal_processing()
\* returns it, and a terminal() that asked for it answers by it
VtReturn(t, v) ==
    thr' = [thr EXCEPT ![t] =
               [pc |-> "idle", op |-> thr[t].op, env |-> thr[t].env,
                ret |-> IF thr[t].op = "terminal"
                        THEN terminal_windows(thr[t].env, v = "yes")
                        ELSE "none",
                got |-> v]]

\* thread t calls terminal() in the environment env: it returns at once, or
\* (on Windows, when neither vscode nor Emacs) goes on to ask for the VT flag
TermCall(t, env) ==
    /\ thr[t].pc = "idle"
    /\ thr' = [thr EXCEPT ![t] =
                 IF plat = "posix"
                 THEN [pc |-> "idle", op |-> "terminal", env |-> env,
                       ret |-> terminal_posix(env), got |-> "none"]
                 ELSE IF needs_vt_probe(env)
                 THEN [pc |-> "vt", op |-> "terminal", env |-> env,
                       ret |-> "none", got |-> "none"]
                 ELSE [pc |-> "idle", op |-> "terminal", env |-> env,
                       ret |-> terminal_windows(env, FALSE), got |-> "none"]]
    /\ UNCHANGED <<plat, input, fd0, vtMemo, conVt, probes, callVars>>

\* thread t, inside from_xterm on Windows, calls
\* enable_virtual_terminal_processing()
FromXtermVt(t) ==
    /\ plat = "windows"
    /\ thr[t].pc = "idle"
    /\ thr' = [thr EXCEPT ![t] = [pc |-> "vt", op |-> "from_xterm", env |-> NoEnv,
                                  ret |-> "none", got |-> "none"]]
    /\ UNCHANGED <<plat, input, fd0, vtMemo, conVt, probes, callVars>>

\* a get_or_init that runs its closure whether or not a value is stored
VtEnter_NoOnce(t) ==
    /\ thr[t].pc = "vt"
    /\ thr' = [thr EXCEPT ![t].pc = "init"]
    /\ UNCHANGED <<plat, input, fd0, vtMemo, conVt, probes, callVars>>

\* ENABLE_VT_PROCESSING.get_or_init(...): the stored value when there is one;
\* else the thread runs the closure, unless another thread is running it:
\* then it waits for that one to finish
VtEnter(t) ==
    /\ thr[t].pc = "vt"
    /\ IF vtMemo # "unset" THEN VtReturn(t, vtMemo)
       ELSE IF \E u \in Threads : thr[u].pc = "init"
       THEN thr' = [thr EXCEPT ![t].pc = "wait"]
       ELSE thr' = [thr EXCEPT ![t].pc = "init"]
    /\ UNCHANGED <<plat, input, fd0, vtMemo, conVt, probes, callVars>>

\* the closure: GetStdHandle, GetConsoleMode, SetConsoleMode(mode | VT); its
\* outcome is stored and returned
VtProbe(t, probeOk) ==
    /\ thr[t].pc = "init"
    /\ vtMemo' = (IF probeOk THEN "yes" ELSE "no")
    /\ conVt' = (IF probeOk THEN TRUE ELSE conVt)
    /\ probes' = probes + 1
    /\ VtReturn(t, vtMemo')
    /\ UNCHANGED <<plat, input, fd0, callVars>>

\* a thread that waited finds the value stored by the thread that ran the closure
VtWake(t) ==
    /\ thr[t].pc = "wait"
    /\ vtMemo # "unset"
    /\ VtReturn(t, vtMemo)
    /\ UNCHANGED <<plat, input, fd0, vtMemo, conVt, probes, callVars>>

\* the console's mode is changed from outside the library (another program
\* on the console, or the application itself)
ConsoleModeChanged ==
    /\ plat = "windows"
    /\ conVt' = ~conVt
    /\ UNCHANGED <<plat, input, fd0, vtMemo, probes, thr, callVars>>

----------------------------------------------------------------------------
(* rgb() *)

\* a caller calls rgb(timeout)
RgbCall(t) ==
    /\ pc = "idle"
    /\ Begin("rgb", t)
    /\ pc' = "r_term"
    /\ UNCHANGED <<plat, thr, input, fd0, raw, vtMemo, conVt, probes>>

\* let term = terminal(); in rgb() and in latency()
CallTerminal(env, probeOk) ==
    /\ pc = "r_term"
    /\ term' = TerminalOf(env, probeOk)
    /\ TerminalEffect(env, probeOk)
    /\ pc' = "r_match"
    /\ UNCHANGED <<plat, thr, input, fd0, raw, op, timeout, rawAtCall, rawBefore, out, response,
                   elapsed, lastEvent, endedBy, pending, res, P, F, ret, guardLog>>

\* a match without the Emacs arm: Emacs is queried like the other families
RgbMatch_QueryEmacs(r, g, b, i) ==
    /\ pc = "r_match" /\ op \in {"rgb", "theme"}
    /\ IF plat = "posix" \/ term = "XtermCompatible"
       THEN P' = P /\ pc' = "fx_entry"
       ELSE P' = from_winapi(r, g, b, i) /\ pc' = "r_fallback"
    /\ UNCHANGED <<plat, thr, input, fd0, raw, vtMemo, conVt, probes, op, term, timeout, rawAtCall, rawBefore,
                   out, response, elapsed, lastEvent, endedBy, pending, res, F, ret, guardLog>>

\* let rgb = match term { ... }: Emacs is unsupported, the families that are
\* queried enter from_xterm, the others (on Windows) read the console
RgbMatch(r, g, b, i) ==
    /\ pc = "r_match" /\ op \in {"rgb", "theme"}
    /\ IF term = "Emacs"
       THEN P' = ErrUnsupported /\ pc' = "r_fallback"
       ELSE IF plat = "posix" \/ term = "XtermCompatible"
       THEN P' = P /\ pc' = "fx_entry"
       ELSE P' = from_winapi(r, g, b, i) /\ pc' = "r_fallback"
    /\ UNCHANGED <<plat, thr, input, fd0, raw, vtMemo, conVt, probes, op, term, timeout, rawAtCall, rawBefore,
                   out, response, elapsed, lastEvent, endedBy, pending, res, F, ret, guardLog>>

\* let fallback = from_env_colorfgbg(); and the resolution; rgb() returns to
\* its caller, or to theme()
RgbResolve(var) ==
    /\ pc = "r_fallback"
    /\ F' = from_env_colorfgbg(var)
    /\ ret' = Resolve(P, F')
    /\ pc' = IF op = "theme" THEN "t_luma" ELSE "idle"
    /\ UNCHANGED <<plat, thr, input, fd0, raw, vtMemo, conVt, probes, op, term, timeout, rawAtCall, rawBefore,
                   out, response, elapsed, lastEvent, endedBy, pending, res, P, guardLog>>

----------------------------------------------------------------------------
(* theme() *)

\* a caller calls theme(timeout): it calls rgb(timeout)
ThemeCall(t) ==
    /\ pc = "idle"
    /\ Begin("theme", t)
    /\ pc' = "r_term"
    /\ UNCHANGED <<plat, thr, input, fd0, raw, vtMemo, conVt, probes>>

\* a comparison that counts the boundary as light (>= for >)
theme_of_NonStrict(rgb) ==
    LET y1000 == 299 * rgb[1] + 587 * rgb[2] + 114 * rgb[3]
    IN  IF y1000 >= 32768000 THEN "Light" ELSE "Dark"

\* y = r * 0.299 + g * 0.587 + b * 0.114; y > 32768.0, computed in
\* thousandths.  The f64 sum is within 1e-10 of the exact y; an exact y other
\* than 32768 is at least 0.001 away from it, and for the channels with
\* exact y = 32768 the f64 sum is 32768.0 or just below it (0.299 + 0.587 +
\* 0.114 rounds to 0.9999999999999999), so the f64 test and this one agree.
theme_of(rgb) ==
    LET y1000 == 299 * rgb[1] + 587 * rgb[2] + 114 * rgb[3]
    IN  IF y1000 > 32768000 THEN "Light" ELSE "Dark"

\* let rgb = rgb(timeout)?; then the luminance and the comparison
ThemeLuma ==
    /\ pc = "t_luma"
    /\ ret' = IF ret.tag = "ok" THEN Res("theme", <<theme_of(ret.val)>>) ELSE ret
    /\ pc' = "idle"
    /\ UNCHANGED <<plat, thr, input, fd0, raw, vtMemo, conVt, probes, op, term, timeout,
                   rawAtCall, rawBefore, out, response, elapsed, lastEvent, endedBy,
                   pending, res, P, F, guardLog>>

----------------------------------------------------------------------------
(* Leaving from_xterm and xterm_latency *)

\* the function returns r to its caller: rgb() goes on to the fallback (a
\* panic unwinds through rgb() and theme()), latency() returns it
ReturnTo(r) ==
    IF op \in {"rgb", "theme"} /\ r.tag # "panic"
    THEN /\ P' = r /\ pc' = "r_fallback" /\ ret' = ret
    ELSE /\ ret' = r /\ pc' = "idle" /\ P' = P

\* the body ends with r: the deferred guard runs next
ExitBody(r) == res' = r /\ pc' = "g_cmp"

----------------------------------------------------------------------------
(* from_xterm *)

\* a from_xterm that looks at the streams only after raw_before is recorded
\* and the guard is set up
FromXtermEntry_GuardFirst(tty, readOk) ==
    /\ pc = "fx_entry"
    /\ IF ~readOk THEN ReturnTo(ErrIo) /\ UNCHANGED <<rawBefore, res>>
       ELSE IF ~tty THEN rawBefore' = raw /\ ExitBody(ErrUnsupported) /\ UNCHANGED <<P, ret>>
       ELSE rawBefore' = raw /\ pc' = "fx_enable" /\ UNCHANGED <<P, ret, res>>
    /\ UNCHANGED <<plat, thr, input, fd0, raw, vtMemo, conVt, probes, op, term, timeout, rawAtCall,
                   out, response, elapsed, lastEvent, endedBy, pending, F, guardLog>>

\* the is_terminal() checks, then let raw_before = is_raw_mode_enabled()?
FromXtermEntry(tty, readOk) ==
    /\ pc = "fx_entry"
    /\ IF ~tty THEN ReturnTo(ErrUnsupported) /\ rawBefore' = rawBefore
       ELSE IF ~readOk THEN ReturnTo(ErrIo) /\ rawBefore' = rawBefore
       ELSE rawBefore' = raw /\ pc' = "fx_enable" /\ UNCHANGED <<P, ret>>
    /\ UNCHANGED <<plat, thr, input, fd0, raw, vtMemo, conVt, probes, op, term, timeout, rawAtCall,
                   out, response, elapsed, lastEvent, endedBy, pending, res, F, guardLog>>

\* if !raw_before { enable_raw_mode()? }, then on Windows the VT check
FromXtermEnable(setOk, probeOk, r, g, b, i) ==
    /\ pc = "fx_enable"
    /\ IF ~rawBefore /\ ~setOk
       THEN ExitBody(ErrIo) /\ UNCHANGED <<raw, vtMemo, conVt, probes>>
       ELSE /\ raw' = TRUE
            /\ IF plat = "windows"
               THEN /\ VtCall(probeOk)
                    /\ IF VtValue(probeOk)
                       THEN pc' = "q_send" /\ res' = res
                       ELSE ExitBody(from_winapi(r, g, b, i))
               ELSE pc' = "q_send" /\ res' = res /\ UNCHANGED <<vtMemo, conVt, probes>>
    /\ UNCHANGED <<plat, thr, input, fd0, op, term, timeout, rawAtCall, rawBefore,
                   out, response, elapsed, lastEvent, endedBy, pending, P, F, ret, guardLog>>

----------------------------------------------------------------------------
(* query_xterm *)

\* a query that is the bare OSC 11 sequence for every family
Query_BareForAll(t) ==
    <<"ESC", "]", "1", "1", ";", "?", "ESC", "\\">>

\* the escape sequence of the family
Query(t) ==
    IF t = "Tmux" THEN <<"ESC", "P", "t", "m", "u", "x", ";", "ESC", "ESC", "]",
                         "1", "1", ";", "?", "BEL", "ESC", "\\">>
    ELSE IF t = "Screen" THEN <<"ESC", "P", "ESC", "]", "1", "1", ";", "?", "BEL",
                                "ESC", "\\">>
    ELSE <<"ESC", "]", "1", "1", ";", "?", "ESC", "\\">>

\* query_xterm returns r: to from_xterm's guard, or to the harness
QueryReturn(r) ==
    IF op = "query"
    THEN /\ ret' = r /\ pc' = "idle" /\ res' = res
    ELSE /\ ExitBody(r) /\ ret' = ret

\* write!(buffer, "{query}")?; buffer.flush()?; then the loop's variables
QuerySend(wOk, fOk) ==
    /\ pc = "q_send"
    /\ out' = IF ~wOk THEN out
              ELSE IF ~fOk THEN Append(out, Query(term))
              ELSE Append(Append(out, Query(term)), <<"flush">>)
    /\ IF wOk /\ fOk
       THEN /\ pc' = "q_loop" /\ UNCHANGED <<res, ret, endedBy>>
       ELSE /\ QueryReturn(ErrIo) /\ endedBy' = "error"
    /\ response' = <<>>
    /\ elapsed' = 0
    /\ UNCHANGED <<plat, thr, input, fd0, raw, vtMemo, conVt, probes, op, term, timeout, rawAtCall, rawBefore,
                   lastEvent, pending, P, F, guardLog>>

\* a deadline branch that always tries the salvage
AtDeadlineResult_AlwaysSalvage(resp, build) ==
    LET rgb_slice == decode_unterminated(resp)
    IN  IF rgb_slice.tag # "ok" THEN rgb_slice
        ELSE parse_response(rgb_slice.val, build)

\* a deadline branch that reports a failed salvage as a timeout
AtDeadlineResult_TimeoutOnFailure(resp, build) ==
    IF Contains(resp, Marker)
    THEN LET rgb_slice == decode_unterminated(resp)
         IN  IF rgb_slice.tag # "ok" THEN ErrTimedOut
             ELSE parse_response(rgb_slice.val, build)
    ELSE ErrTimedOut

\* the result at the deadline: salvage when the marker is there, else TimedOut
AtDeadlineResult(resp, build) ==
    IF Contains(resp, Marker)
    THEN LET rgb_slice == decode_unterminated(resp)
         IN  IF rgb_slice.tag # "ok" THEN rgb_slice
             ELSE parse_response(rgb_slice.val, build)
    ELSE ErrTimedOut

\* a loop head that returns a reply as soon as the salvage accepts it
QueryDeadline_Eager(build) ==
    /\ pc = "q_loop"
    /\ IF elapsed > timeout \/ IsOk(AtDeadlineResult(response, build))
       THEN /\ QueryReturn(AtDeadlineResult(response, build))
            /\ endedBy' = "deadline"
       ELSE /\ pc' = "q_poll"
            /\ UNCHANGED <<res, ret, endedBy>>
    /\ UNCHANGED <<plat, thr, input, fd0, raw, vtMemo, conVt, probes, op, term, timeout, rawAtCall, rawBefore,
                   out, response, elapsed, lastEvent, pending, P, F, guardLog>>

\* a loop head that gives up one quantum late
QueryDeadline_Late(build) ==
    /\ pc = "q_loop"
    /\ IF elapsed > timeout + PollQuantum
       THEN /\ QueryReturn(AtDeadlineResult(response, build))
            /\ endedBy' = "deadline"
       ELSE /\ pc' = "q_poll"
            /\ UNCHANGED <<res, ret, endedBy>>
    /\ UNCHANGED <<plat, thr, input, fd0, raw, vtMemo, conVt, probes, op, term, timeout, rawAtCall, rawBefore,
                   out, response, elapsed, lastEvent, pending, P, F, guardLog>>

\* the head of the loop: if start_time.elapsed() > timeout { ... }
QueryDeadline(build) ==
    /\ pc = "q_loop"
    /\ IF elapsed > timeout
       THEN /\ QueryReturn(AtDeadlineResult(response, build))
            /\ endedBy' = "deadline"
       ELSE /\ pc' = "q_poll"
            /\ UNCHANGED <<res, ret, endedBy>>
    /\ UNCHANGED <<plat, thr, input, fd0, raw, vtMemo, conVt, probes, op, term, timeout, rawAtCall, rawBefore,
                   out, response, elapsed, lastEvent, pending, P, F, guardLog>>

\* poll() returned true after dt and read_event() returned e
PollEvent(e, dt, allowed) ==
    /\ pc = "q_poll"
    /\ e \in TextEvents => Append(response, e.c) \in allowed
    /\ elapsed' = elapsed + dt
    /\ lastEvent' = e
    /\ IF IsTerminator(e)
       THEN /\ \E build \in Builds : QueryReturn(parse_response(response, build))
            /\ endedBy' = "terminator"
            /\ response' = response
       ELSE /\ response' = IF IsPushed(e) THEN Append(response, e.c) ELSE response
            /\ pc' = "q_loop"
            /\ UNCHANGED <<res, ret, endedBy>>
    /\ UNCHANGED <<plat, thr, input, fd0, raw, vtMemo, conVt, probes, op, term, timeout, rawAtCall, rawBefore,
                   out, pending, P, F, guardLog>>

\* poll() returned false: the quantum passed without an event
PollTimeout ==
    /\ pc = "q_poll"
    /\ elapsed' = elapsed + PollQuantum
    /\ pc' = "q_loop"
    /\ lastEvent' = NoEvent
    /\ UNCHANGED <<plat, thr, input, fd0, raw, vtMemo, conVt, probes, op, term, timeout, rawAtCall, rawBefore,
                   out, response, endedBy, pending, res, P, F, ret, guardLog>>

\* poll() or read_event() returned Err
PollError(dt) ==
    /\ pc = "q_poll"
    /\ elapsed' = elapsed + dt
    /\ QueryReturn(ErrIo)
    /\ endedBy' = "error"
    /\ lastEvent' = NoEvent
    /\ UNCHANGED <<plat, thr, input, fd0, raw, vtMemo, conVt, probes, op, term, timeout, rawAtCall, rawBefore,
                   out, response, pending, P, F, guardLog>>

\* the harness: query_xterm(Terminal::XtermCompatible, timeout, mocks)
QStart(t) ==
    /\ pc = "idle"
    /\ Begin("query", t)
    /\ pc' = "q_send"
    /\ UNCHANGED <<plat, thr, input, fd0, raw, vtMemo, conVt, probes>>

----------------------------------------------------------------------------
(* The deferred guard of from_xterm and xterm_latency (defer! { ... }) *)

\* restore_raw_status(raw_before): the flag afterwards, given whether its own
\* is_raw_mode_enabled() and its enable/disable call succeed
restore_raw_status(now, raw_before, readOk, setOk) ==
    IF ~readOk THEN [raw |-> now, ok |-> FALSE]
    ELSE IF now = raw_before THEN [raw |-> now, ok |-> TRUE]
    ELSE IF setOk THEN [raw |-> raw_before, ok |-> TRUE]
    ELSE [raw |-> now, ok |-> FALSE]

\* let is_raw = match is_raw_mode_enabled() { Err => return }; the comparison
\* with raw_before and the restoration
GuardCompare(readOk, read2Ok, setOk) ==
    /\ pc = "g_cmp"
    /\ IF ~readOk
       THEN /\ guardLog' = <<"read_failed">>
            /\ ReturnTo(res)
            /\ raw' = raw
       ELSE IF raw = rawBefore
       THEN /\ guardLog' = <<"unchanged">>
            /\ pc' = "g_drain"
            /\ UNCHANGED <<raw, P, ret>>
       ELSE LET r == restore_raw_status(raw, rawBefore, read2Ok, setOk)
            IN  /\ raw' = r.raw
                /\ guardLog' = <<IF r.ok THEN "restored" ELSE "restore_failed">>
                /\ pc' = "g_drain"
                /\ UNCHANGED <<P, ret>>
    /\ UNCHANGED <<plat, thr, input, fd0, vtMemo, conVt, probes, op, term, timeout, rawAtCall, rawBefore,
                   out, response, elapsed, lastEvent, endedBy, pending, res, F>>

\* clear_stdin: poll(10 ms) returned true and read() returned an event
DrainEvent ==
    /\ pc = "g_drain"
    /\ UNCHANGED vars

\* clear_stdin ends: poll returned false (ok), or poll or read returned Err
DrainEnd(ok) ==
    /\ pc = "g_drain"
    /\ guardLog' = Append(guardLog, IF ok THEN "drained" ELSE "drain_failed")
    /\ ReturnTo(res)
    /\ UNCHANGED <<plat, thr, input, fd0, raw, vtMemo, conVt, probes, op, term, timeout, rawAtCall, rawBefore,
                   out, response, elapsed, lastEvent, endedBy, pending, res, F>>

----------------------------------------------------------------------------
(* latency() and xterm_latency *)

\* the device status report query
DsrQuery == <<"ESC", "[", "5", "n">>

\* a caller calls latency(timeout)
LatencyCall(t) ==
    /\ pc = "idle"
    /\ Begin("latency", t)
    /\ pc' = "r_term"
    /\ UNCHANGED <<plat, thr, input, fd0, raw, vtMemo, conVt, probes>>

\* match term { ... }: a zero duration, or xterm_latency
LatencyMatch ==
    /\ pc = "r_match" /\ op = "latency"
    /\ IF term # "Emacs" /\ (plat = "posix" \/ term = "XtermCompatible")
       THEN pc' = "l_entry" /\ ret' = ret
       ELSE pc' = "idle" /\ ret' = OkDuration(0)
    /\ UNCHANGED <<plat, thr, input, fd0, raw, vtMemo, conVt, probes, op, term, timeout, rawAtCall, rawBefore,
                   out, response, elapsed, lastEvent, endedBy, pending, res, P, F, guardLog>>

\* let raw_before = is_raw_mode_enabled()?
LatencyEntry(readOk) ==
    /\ pc = "l_entry"
    /\ IF ~readOk THEN ReturnTo(ErrIo) /\ rawBefore' = rawBefore
       ELSE rawBefore' = raw /\ pc' = "l_enable" /\ UNCHANGED <<P, ret>>
    /\ UNCHANGED <<plat, thr, input, fd0, raw, vtMemo, conVt, probes, op, term, timeout, rawAtCall,
                   out, response, elapsed, lastEvent, endedBy, pending, res, F, guardLog>>

\* if !raw_before { enable_raw_mode()? }
LatencyEnable(setOk) ==
    /\ pc = "l_enable"
    /\ IF ~rawBefore /\ ~setOk
       THEN ExitBody(ErrIo) /\ raw' = raw
       ELSE raw' = TRUE /\ pc' = "l_send" /\ res' = res
    /\ UNCHANGED <<plat, thr, input, fd0, vtMemo, conVt, probes, op, term, timeout, rawAtCall, rawBefore,
                   out, response, elapsed, lastEvent, endedBy, pending, P, F, ret, guardLog>>

\* write_all, flush, start_time, enable_raw_mode()?; the terminal will answer
\* with n bytes
LatencySend(wOk, fOk, setOk, n) ==
    /\ pc = "l_send"
    /\ out' = IF ~wOk THEN out
              ELSE IF ~fOk THEN Append(out, DsrQuery)
              ELSE Append(Append(out, DsrQuery), <<"flush">>)
    /\ IF wOk /\ fOk /\ setOk
       THEN /\ raw' = TRUE /\ pc' = "l_loop" /\ pending' = n /\ res' = res
       ELSE /\ ExitBody(ErrIo) /\ UNCHANGED <<raw, pending>>
    /\ elapsed' = 0
    /\ UNCHANGED <<plat, thr, input, fd0, vtMemo, conVt, probes, op, term, timeout, rawAtCall, rawBefore,
                   response, lastEvent, endedBy, P, F, ret, guardLog>>

\* the head of the loop: on timeout disable_raw_mode()? and return TimedOut
LatencyDeadline(setOk) ==
    /\ pc = "l_loop"
    /\ IF elapsed > timeout
       THEN IF setOk THEN raw' = FALSE /\ ExitBody(ErrTimedOut)
            ELSE raw' = raw /\ ExitBody(ErrIo)
       ELSE pc' = "l_read" /\ UNCHANGED <<raw, res>>
    /\ UNCHANGED <<plat, thr, input, fd0, vtMemo, conVt, probes, op, term, timeout, rawAtCall, rawBefore,
                   out, response, elapsed, lastEvent, endedBy, pending, P, F, ret, guardLog>>

\* stdin.read(&mut buffer) returned Ok: one byte (or none at end of input, the
\* zeroed buffer is pushed then)
LatencyRead(byte) ==
    /\ pc = "l_read"
    /\ pending > 0
    /\ pending' = pending - 1
    /\ response' = Append(response, byte)
    /\ IF byte = "n"
       THEN ExitBody(OkDuration(elapsed))
       ELSE pc' = "l_loop" /\ res' = res
    /\ UNCHANGED <<plat, thr, input, fd0, raw, vtMemo, conVt, probes, op, term, timeout, rawAtCall, rawBefore,
                   out, elapsed, lastEvent, endedBy, P, F, ret, guardLog>>

\* stdin.read returned Err: the loop goes round
LatencyReadError ==
    /\ pc = "l_read"
    /\ pc' = "l_loop"
    /\ UNCHANGED <<plat, thr, input, fd0, raw, vtMemo, conVt, probes, op, term, timeout, rawAtCall, rawBefore,
                   out, response, elapsed, lastEvent, endedBy, pending, res, P, F, ret, guardLog>>

\* stdin.read has not returned yet: the call is blocked in it while time passes.
\* The clock is counted up to timeout + MaxBlock only; beyond it the call is
\* still inside the read (pc stays "l_read"), as the thread is in the code:
\* the deadline test of the loop head is not reached from inside the read.
LatencyBlocked ==
    /\ pc = "l_read"
    /\ elapsed < timeout + MaxBlock
    /\ elapsed' = elapsed + 1
    /\ UNCHANGED <<plat, thr, input, fd0, raw, vtMemo, conVt, probes, op, pc, term, timeout, rawAtCall,
                   rawBefore, out, response, lastEvent, endedBy, pending, res, P, F, ret, guardLog>>

----------------------------------------------------------------------------
(* stdin.rs: the non-blocking Stdin adapter *)

\* stdin(): File::from_raw_fd(0); set_blocking(0, false)?; AsyncFd::new(..)?
\* A `?` that returns drops stdin_fd, and an AsyncFd::new that fails drops
\* the File it was given.  The caller holds one adapter at a time.
stdin(getOk, setOk, regOk) ==
    /\ fd0.adapter # "live"
    /\ LET f == [fd0 EXCEPT !.wasOpen = fd0.open, !.before = fd0.nonblock,
                            !.got = 0, !.last = "none"]
           sb == set_blocking(f, FALSE, getOk, setOk)
       IN  fd0' = IF ~sb.ok THEN [DropFile(sb.f) EXCEPT !.adapter = "failed_mode"]
                  ELSE IF ~regOk THEN [DropFile(sb.f) EXCEPT !.adapter = "failed_register"]
                  ELSE [sb.f EXCEPT !.adapter = "live"]
    /\ UNCHANGED <<plat, thr, input, vtMemo, conVt, probes, callVars>>

\* poll_read: not ready (Pending, also after a read that would block), or a
\* read of the descriptor that gives a byte, end of input, or an error
poll_read(outcome) ==
    /\ fd0.adapter = "live"
    /\ outcome = "data" => fd0.got < MaxReply
    /\ fd0' = [fd0 EXCEPT !.last = outcome,
                          !.got = IF outcome = "data" THEN @ + 1 ELSE @]
    /\ UNCHANGED <<plat, thr, input, vtMemo, conVt, probes, callVars>>

\* a drop that lets the File go out of scope (no mem::forget)
Stdin_drop_Closing(getOk, setOk) ==
    /\ fd0.adapter = "live"
    /\ LET sb == set_blocking(DropFile(fd0), TRUE, getOk, setOk)
       IN  fd0' = [sb.f EXCEPT !.adapter = IF sb.ok THEN "dropped" ELSE "dropped_mode_kept"]
    /\ UNCHANGED <<plat, thr, input, vtMemo, conVt, probes, callVars>>

\* Drop for Stdin: take the AsyncFd, forget its File, let _ = set_blocking(0, true)
Stdin_drop(getOk, setOk) ==
    /\ fd0.adapter = "live"
    /\ LET sb == set_blocking(fd0, TRUE, getOk, setOk)
       IN  fd0' = [sb.f EXCEPT !.adapter = IF sb.ok THEN "dropped" ELSE "dropped_mode_kept"]
    /\ UNCHANGED <<plat, thr, input, vtMemo, conVt, probes, callVars>>

\* the program sets or clears O_NONBLOCK on descriptor 0 by itself, while it
\* holds no adapter
FdModeChanged ==
    /\ fd0.adapter # "live" /\ fd0.open
    /\ fd0' = [fd0 EXCEPT !.nonblock = ~@, !.adapter = "none"]
    /\ UNCHANGED <<plat, thr, input, vtMemo, conVt, probes, callVars>>

----------------------------------------------------------------------------
(* decode_x11_color and from_env_colorfgbg called on their own *)

RECURSIVE Words(_, _)
\* the texts of n characters over the set S
Words(S, n) ==
    IF n = 0 THEN {<<>>} ELSE {<<c>> \o w : c \in S, w \in Words(S, n - 1)}

\* colour groups of one to four hex digits
HexGroups == Words({"0", "1", "f"}, 1) \cup Words({"0", "1", "f"}, 2)
                \cup Words({"0", "1", "f"}, 3) \cup Words({"0", "1", "f"}, 4)

\* other groups: empty, no hex number, signed, upper case, over-long
OddGroups == {<<>>, <<"x">>, <<"+", "f">>, <<"F", "f">>, Rep("f", MaxGroupLen),
              Rep("0", MaxGroupLen), Rep("0", MaxGroupLen - 1) \o <<"1">>}

\* the texts given to decode_x11_color: three groups, one of them any group;
\* and texts of two and of four groups
DecodeInputs ==
    LET any == HexGroups \cup OddGroups
        few == {<<"1">>, <<"2", "2">>}
    IN  {g \o <<"/">> \o a \o <<"/">> \o b : g \in any, a \in few, b \in few}
        \cup {a \o <<"/">> \o g \o <<"/">> \o b : g \in any, a \in few, b \in few}
        \cup {a \o <<"/">> \o b \o <<"/">> \o g : g \in any, a \in few, b \in few}
        \cup {<<"1", "/", "1">>, <<"1", "/", "1", "/", "1", "/", "1">>}

\* decode_x11_color(s) on the text drawn at the start, as
\* test_decode_x11_color calls it
DecodeCall(build) ==
    /\ op = "decode" /\ ret = NoRes
    /\ ret' = decode_x11_color(input.text, build)
    /\ UNCHANGED <<plat, thr, input, fd0, raw, vtMemo, conVt, probes, op, pc, term, timeout,
                   rawAtCall, rawBefore, out, response, elapsed, lastEvent, endedBy,
                   pending, res, P, F, guardLog>>

\* the decimal text of n < 100
DecText(n) ==
    IF n < 10 THEN <<DecChars[n + 1]>>
    ELSE <<DecChars[(n \div 10) + 1], DecChars[(n % 10) + 1]>>

\* values of COLORFGBG: "fg;bg" and "fg;bg;more" for every palette index,
\* and values with an odd second field or without one
ColorFgBgInputs ==
    {Var(fg \o <<";">> \o DecText(bg) \o more) :
        fg \in {<<"0">>, <<"1", "5">>}, bg \in 0..16,
        more \in {<<>>, <<";", "0">>, <<";", "x">>, <<";">>}}
    \cup {NoVar, Var(<<>>), Var(<<"7">>), Var(<<"0", ";">>), Var(<<"0", ";", "x">>),
          Var(<<"0", ";", "0", "7">>), Var(<<"0", ";", "+", "7">>),
          Var(<<"0", ";", "2", "5", "5">>), Var(<<"0", ";", "2", "5", "6">>)}

\* from_env_colorfgbg() with the value of COLORFGBG drawn at the start
ColorFgBgCall ==
    /\ op = "colorfgbg" /\ ret = NoRes
    /\ ret' = from_env_colorfgbg(input)
    /\ UNCHANGED <<plat, thr, input, fd0, raw, vtMemo, conVt, probes, op, pc, term, timeout,
                   rawAtCall, rawBefore, out, response, elapsed, lastEvent, endedBy,
                   pending, res, P, F, guardLog>>

----------------------------------------------------------------------------
(* Specifications *)

Events == Terminators \cup IgnoredEvents \cup TextEvents

ColorFgBgValues ==
    {NoVar, Var(<<"1", "5", ";", "0">>), Var(<<"0", ";", "1", "5">>),
     Var(<<"7">>), Var(<<"0", ";", "x">>)}

\* the calls of the library, made one at a time
Next ==
    \/ \E t \in Timeouts : RgbCall(t)
    \/ \E t \in Timeouts : LatencyCall(t)
    \/ \E env \in Envs, probeOk \in BOOLEAN : CallTerminal(env, probeOk)
    \/ \E r, g, b, i \in BOOLEAN : RgbMatch(r, g, b, i)
    \/ \E var \in ColorFgBgValues : RgbResolve(var)
    \/ \E tty, readOk \in BOOLEAN : FromXtermEntry(tty, readOk)
    \/ \E setOk, probeOk, r, g, b, i \in BOOLEAN :
          FromXtermEnable(setOk, probeOk, r, g, b, i)
    \/ \E wOk, fOk \in BOOLEAN : QuerySend(wOk, fOk)
    \/ \E build \in Builds : QueryDeadline(build)
    \/ \E e \in Events, dt \in 0..PollQuantum : PollEvent(e, dt, ApiBuffers)
    \/ PollTimeout
    \/ \E dt \in 0..PollQuantum : PollError(dt)
    \/ \E readOk, read2Ok, setOk \in BOOLEAN : GuardCompare(readOk, read2Ok, setOk)
    \/ DrainEvent
    \/ \E ok \in BOOLEAN : DrainEnd(ok)
    \/ LatencyMatch
    \/ \E readOk \in BOOLEAN : LatencyEntry(readOk)
    \/ \E setOk \in BOOLEAN : LatencyEnable(setOk)
    \/ \E wOk, fOk, setOk \in BOOLEAN, n \in 0..MaxReply : LatencySend(wOk, fOk, setOk, n)
    \/ \E setOk \in BOOLEAN : LatencyDeadline(setOk)
    \/ \E byte \in {"n", "x", "NUL"} : LatencyRead(byte)
    \/ LatencyReadError
    \/ LatencyBlocked

Spec == Init /\ [][Next]_vars

\* query_xterm alone, driven as the unit tests drive it, with the shortest
\* timeout: every buffer can fill before the deadline, which is met one
\* quantum later
NextQ ==
    \/ \E t \in {0} : QStart(t)
    \/ \E wOk, fOk \in BOOLEAN : QuerySend(wOk, fOk)
    \/ \E build \in Builds : QueryDeadline(build)
    \/ \E e \in Events, dt \in 0..PollQuantum : PollEvent(e, dt, QBuffers)
    \/ PollTimeout
    \/ \E dt \in 0..PollQuantum : PollError(dt)

SpecQ == InitQ /\ [][NextQ]_vars

\* what the terminal sends in the runs that look at termination only: the
\* start of a reply
LiveBuffers == Prefixes({Marker \o <<"f">>})

\* query_xterm alone, for any timeout
NextT ==
    \/ \E t \in Timeouts : QStart(t)
    \/ \E wOk, fOk \in BOOLEAN : QuerySend(wOk, fOk)
    \/ \E build \in Builds : QueryDeadline(build)
    \/ \E e \in Events, dt \in 0..PollQuantum : PollEvent(e, dt, LiveBuffers)
    \/ PollTimeout
    \/ \E dt \in 0..PollQuantum : PollError(dt)

\* the steps query_xterm takes once called: each of them happens when it can
QueryStep ==
    \/ \E wOk, fOk \in BOOLEAN : QuerySend(wOk, fOk)
    \/ \E build \in Builds : QueryDeadline(build)
    \/ \E e \in Events, dt \in 0..PollQuantum : PollEvent(e, dt, LiveBuffers)
    \/ PollTimeout
    \/ \E dt \in 0..PollQuantum : PollError(dt)

\* a poll during which the clock moves on by a quantum
TimePasses ==
    \/ PollTimeout
    \/ \E e \in Events : PollEvent(e, PollQuantum, LiveBuffers)
    \/ PollError(PollQuantum)

\* query_xterm under a scheduler that runs it and a clock that does not
\* stand still: a loop that polls again and again sees time pass
FairQuery ==
    InitQ /\ [][NextT]_vars /\ WF_vars(QueryStep) /\ SF_vars(TimePasses)

\* latency() alone
NextL ==
    \/ \E t \in Timeouts : LatencyCall(t)
    \/ \E env \in Envs, probeOk \in BOOLEAN : CallTerminal(env, probeOk)
    \/ LatencyMatch
    \/ \E readOk \in BOOLEAN : LatencyEntry(readOk)
    \/ \E setOk \in BOOLEAN : LatencyEnable(setOk)
    \/ \E wOk, fOk, setOk \in BOOLEAN, n \in 0..MaxReply : LatencySend(wOk, fOk, setOk, n)
    \/ \E setOk \in BOOLEAN : LatencyDeadline(setOk)
    \/ \E byte \in {"n", "x", "NUL"} : LatencyRead(byte)
    \/ LatencyReadError
    \/ LatencyBlocked
    \/ \E readOk, read2Ok, setOk \in BOOLEAN : GuardCompare(readOk, read2Ok, setOk)
    \/ DrainEvent
    \/ \E ok \in BOOLEAN : DrainEnd(ok)

\* The steps latency() takes by itself once called, the passing of time in a
\* blocked read included.  The bytes the terminal sends (LatencyRead) and an
\* error of the read (LatencyReadError) are not among them: nothing obliges
\* the terminal to answer.
LatencyStep ==
    \/ \E env \in Envs, probeOk \in BOOLEAN : CallTerminal(env, probeOk)
    \/ LatencyMatch
    \/ \E readOk \in BOOLEAN : LatencyEntry(readOk)
    \/ \E setOk \in BOOLEAN : LatencyEnable(setOk)
    \/ \E wOk, fOk, setOk \in BOOLEAN, n \in 0..MaxReply : LatencySend(wOk, fOk, setOk, n)
    \/ \E setOk \in BOOLEAN : LatencyDeadline(setOk)
    \/ LatencyBlocked
    \/ \E readOk, read2Ok, setOk \in BOOLEAN : GuardCompare(readOk, read2Ok, setOk)
    \/ \E ok \in BOOLEAN : DrainEnd(ok)

\* latency() under a scheduler that runs it and a clock that does not stand
\* still while the call waits in the read
FairLatency ==
    Init /\ [][NextL]_vars /\ WF_vars(LatencyStep) /\ SF_vars(LatencyBlocked)

\* terminal() and enable_virtual_terminal_processing() called from the
\* threads of the process, in any interleaving
InitV == Init /\ raw = FALSE

NextV ==
    \/ \E t \in Threads, env \in Envs : TermCall(t, env)
    \/ \E t \in Threads : FromXtermVt(t)
    \/ \E t \in Threads : VtEnter(t)
    \/ \E t \in Threads, probeOk \in BOOLEAN : VtProbe(t, probeOk)
    \/ \E t \in Threads : VtWake(t)
    \/ ConsoleModeChanged

SpecV == InitV /\ [][NextV]_vars

\* the decoders called on their own: the function and its input are drawn
\* at the start, one call is made
InitD ==
    /\ plat = "posix"
    /\ raw = FALSE
    /\ vtMemo = "unset"
    /\ conVt = FALSE
    /\ probes = 0
    /\ thr = [t \in Threads |-> ThreadIdle]
    /\ fd0 = Fd0Start
    /\ \/ op = "decode" /\ input \in {Var(s) : s \in DecodeInputs}
       \/ op = "colorfgbg" /\ input \in ColorFgBgInputs
    /\ pc = "idle"
    /\ term = "XtermCompatible"
    /\ timeout = 0
    /\ rawAtCall = raw
    /\ rawBefore = FALSE
    /\ out = <<>>
    /\ response = <<>>
    /\ elapsed = 0
    /\ lastEvent = NoEvent
    /\ endedBy = "none"
    /\ pending = 0
    /\ res = NoRes
    /\ P = NoRes
    /\ F = NoRes
    /\ ret = NoRes
    /\ guardLog = <<>>

NextD ==
    \/ \E build \in Builds : DecodeCall(build)
    \/ ColorFgBgCall

SpecD == InitD /\ [][NextD]_vars

\* the replies the terminal sends during theme(): black, white, and the
\* colour whose luminance is 32768
ThemeReplies ==
    {Marker \o <<"0", "/", "0", "/", "0">>,
     Marker \o <<"f", "f", "f", "f", "/", "f", "f", "f", "f", "/", "f", "f", "f", "f">>,
     Marker \o <<"8", "0", "0", "0", "/", "8", "0", "0", "0", "/", "8", "0", "0", "0">>}
ThemeBuffers == Prefixes(ThemeReplies)

\* theme() alone
NextTheme ==
    \/ \E t \in Timeouts : ThemeCall(t)
    \/ \E env \in Envs, probeOk \in BOOLEAN : CallTerminal(env, probeOk)
    \/ \E r, g, b, i \in BOOLEAN : RgbMatch(r, g, b, i)
    \/ \E var \in ColorFgBgValues : RgbResolve(var)
    \/ ThemeLuma
    \/ \E tty, readOk \in BOOLEAN : FromXtermEntry(tty, readOk)
    \/ \E setOk, probeOk, r, g, b, i \in BOOLEAN :
          FromXtermEnable(setOk, probeOk, r, g, b, i)
    \/ \E wOk, fOk \in BOOLEAN : QuerySend(wOk, fOk)
    \/ \E build \in Builds : QueryDeadline(build)
    \/ \E e \in Events, dt \in 0..PollQuantum : PollEvent(e, dt, ThemeBuffers)
    \/ PollTimeout
    \/ \E dt \in 0..PollQuantum : PollError(dt)
    \/ \E readOk, read2Ok, setOk \in BOOLEAN : GuardCompare(readOk, read2Ok, setOk)
    \/ DrainEvent
    \/ \E ok \in BOOLEAN : DrainEnd(ok)

SpecTheme == Init /\ [][NextTheme]_vars

\* the Stdin adapter alone (a unix-only module)
InitS == Init /\ plat = "posix"

NextS ==
    \/ \E getOk, setOk, regOk \in BOOLEAN : stdin(getOk, setOk, regOk)
    \/ \E outcome \in {"pending", "data", "eof", "err"} : poll_read(outcome)
    \/ \E getOk, setOk \in BOOLEAN : Stdin_drop(getOk, setOk)
    \/ FdModeChanged

SpecS == InitS /\ [][NextS]_vars

----------------------------------------------------------------------------
(* Reference reading of a reply, used to state the properties *)

IsMarkerAt(s, i) ==
    /\ i + 3 <= Len(s)
    /\ s[i] = "r" /\ s[i + 1] = "g" /\ s[i + 2] = "b" /\ s[i + 3] = ":"

HasMarker(s) == \E i \in 1..Len(s) : IsMarkerAt(s, i)

\* the text after the first "rgb:"
AfterMarker(s) ==
    LET i == CHOOSE k \in 1..Len(s) :
                 IsMarkerAt(s, k) /\ \A j \in 1..(k - 1) : ~IsMarkerAt(s, j)
    IN  SubSeq(s, i + 4, Len(s))

\* the positions of '/' in t, and the n-th of them (Len(t) + 1 when missing)
Slashes(t) == {i \in 1..Len(t) : t[i] = "/"}
SlashNo(t, n) ==
    IF Cardinality(Slashes(t)) < n THEN Len(t) + 1
    ELSE CHOOSE i \in Slashes(t) : Cardinality({j \in Slashes(t) : j < i}) = n - 1

Between(t, from, to) == SubSeq(t, from + 1, to - 1)

\* the three groups of a terminated reply: the text between the '/'
GroupsOf(s) ==
    LET t == AfterMarker(s)
    IN  <<Between(t, 0, SlashNo(t, 1)),
          Between(t, SlashNo(t, 1), SlashNo(t, 2)),
          Between(t, SlashNo(t, 2), SlashNo(t, 3))>>

\* the three fragments the salvage looks at: the third runs to the end
FragmentsOf(s) ==
    LET t == AfterMarker(s)
    IN  <<Between(t, 0, SlashNo(t, 1)),
          Between(t, SlashNo(t, 1), SlashNo(t, 2)),
          Between(t, SlashNo(t, 2), Len(t) + 1)>>

\* "rgb:" is there with three fragments, the first two of one length L and
\* the third of at least L
SalvageRule(s) ==
    /\ HasMarker(s)
    /\ Cardinality(Slashes(AfterMarker(s))) >= 2
    /\ Len(FragmentsOf(s)[2]) = Len(FragmentsOf(s)[1])
    /\ Len(FragmentsOf(s)[3]) >= Len(FragmentsOf(s)[1])

\* the salvaged groups: fragment 3 cut to its first L characters
CutGroups(s) ==
    LET f == FragmentsOf(s)
    IN  <<f[1], f[2], SubSeq(f[3], 1, Len(f[1]))>>

\* the terminated reply made of three groups
ReplyOf(g) == <<"r", "g", "b", ":">> \o g[1] \o <<"/">> \o g[2] \o <<"/">> \o g[3]

RefDigits ==
    "0" :> 0 @@ "1" :> 1 @@ "2" :> 2 @@ "3" :> 3 @@ "4" :> 4 @@ "5" :> 5 @@
    "6" :> 6 @@ "7" :> 7 @@ "8" :> 8 @@ "9" :> 9 @@ "a" :> 10 @@ "b" :> 11 @@
    "c" :> 12 @@ "d" :> 13 @@ "e" :> 14 @@ "f" :> 15 @@ "A" :> 10 @@ "B" :> 11 @@
    "C" :> 12 @@ "D" :> 13 @@ "E" :> 14 @@ "F" :> 15

\* one to four hex digits
IsHexGroup(g) == Len(g) \in 1..4 /\ \A k \in 1..Len(g) : g[k] \in DOMAIN RefDigits

RECURSIVE RefVal(_)
RefVal(g) ==
    IF g = <<>> THEN 0
    ELSE 16 * RefVal(SubSeq(g, 1, Len(g) - 1)) + RefDigits[g[Len(g)]]

\* a group of n digits read as the top n digits of a 16-bit channel
RefChannel(g) == RefVal(g) * 16 ^ (4 - Len(g))

RefRgb(g) == OkRgb(RefChannel(g[1]), RefChannel(g[2]), RefChannel(g[3]))

ThreeHexGroups(g) == IsHexGroup(g[1]) /\ IsHexGroup(g[2]) /\ IsHexGroup(g[3])

\* query_xterm, called by the harness, has returned at the deadline
ReturnedAtDeadline == op = "query" /\ pc = "idle" /\ endedBy = "deadline"

----------------------------------------------------------------------------
(* Properties *)

\* C1 (as stated; violated): when rgb() or latency() has returned, whatever
\* the outcome, the raw-mode flag is what it was when the call was made.
\* (Returns after a restoring call that itself failed are left out: the flag
\* could not be put back there.)
C1_RawModeAsBefore ==
    (op \in {"rgb", "latency"} /\ pc = "idle" /\ guardLog # <<>>
        /\ guardLog[1] # "restore_failed")
    => raw = rawAtCall

\* the control points of from_xterm and xterm_latency from the recording of
\* raw_before on: the query attempt and the guard
AttemptPcs == {"fx_enable", "q_send", "q_loop", "q_poll",
               "l_enable", "l_send", "l_loop", "l_read",
               "g_cmp", "g_drain"}

\* the guard compared the flag, restored it where it differed, then drained
GuardRan ==
    /\ Len(guardLog) = 2
    /\ guardLog[1] \in {"unchanged", "restored", "restore_failed"}
    /\ guardLog[2] \in {"drained", "drain_failed"}

\* C2 (as stated; violated): every step by which from_xterm or xterm_latency
\* returns from a query attempt is taken with the guard's comparison (and
\* restoration where the flag differed) and then its drain both done.
C2_EveryExitRunsGuard ==
    [][(op \in {"rgb", "latency"} /\ pc \in AttemptPcs /\ pc' \notin AttemptPcs)
       => GuardRan']_vars

\* C3: query_xterm always returns; no poll is started once the deadline has
\* passed, so the call outlasts the timeout by at most one poll quantum.
C3_QueryReturnsInTime ==
    /\ [](pc = "q_poll" => elapsed <= timeout)
    /\ [](pc \in {"q_loop", "q_poll"} => elapsed <= timeout + PollQuantum)
    /\ (pc \in {"q_send", "q_loop", "q_poll"}) ~> (pc \notin {"q_send", "q_loop", "q_poll"})

\* the loop of query_xterm stands past the deadline after a poll that
\* started in time and brought text
C3_Witness ==
    /\ pc = "q_loop" /\ op = "query"
    /\ elapsed = timeout + PollQuantum
    /\ response # <<>>

\* C4 (as stated; violated): latency() always returns: once it waits for the
\* terminal's answer and the terminal sends nothing more, it comes back.
C4_LatencyReturns ==
    (op = "latency" /\ pc = "l_read" /\ pending = 0) ~> (pc = "idle")

\* C5: every terminator (Alt+\, plain \, Ctrl+g, the character BEL) ends the
\* read at once, is not part of the text, and the result is the decoding of
\* the text read before it: for three groups of hex digits the same Rgb
\* whichever terminator it was.
C5_TerminatorsAgree ==
    (op = "query" /\ lastEvent \in Terminators) =>
        /\ pc = "idle" /\ endedBy = "terminator"
        /\ \A k \in 1..Len(response) : response[k] \notin {"\\", "BEL"}
        /\ ret \in {parse_response(response, build) : build \in Builds}
        /\ (HasMarker(response) /\ ThreeHexGroups(GroupsOf(response)))
              => ret = RefRgb(GroupsOf(response))

\* the reply ;rgb:ff/f/ffff ended by the character BEL
C5_Witness ==
    /\ op = "query" /\ lastEvent = Key("BEL", "NONE")
    /\ response = <<";", "r", "g", "b", ":", "f", "f", "/", "f", "/", "f", "f", "f", "f">>
    /\ ret = OkRgb(65280, 61440, 65535)

\* C6: at the deadline a buffer without "rgb:" (the empty one included)
\* gives the Timeout error, never Parse and never a colour.
C6_NoMarkerIsTimeout ==
    (ReturnedAtDeadline /\ ~HasMarker(response)) => ret = ErrTimedOut

\* the deadline met with text but no marker in the buffer
C6_Witness ==
    /\ ReturnedAtDeadline
    /\ response = <<"f", "/", "f", "/", "f">>
    /\ ret = ErrTimedOut

C10_Resolution ==
    (op = "rgb" /\ pc = "idle" /\ F # NoRes) =>
        /\ P.tag = "ok" => ret = P
        /\ (P.tag # "ok" /\ F.tag = "ok") => ret = F
        /\ (P.tag # "ok" /\ F.tag # "ok") => ret = P

\* both sources succeeded with different colours
C10_Witness ==
    /\ op = "rgb" /\ pc = "idle"
    /\ P.tag = "ok" /\ F.tag = "ok" /\ P # F
    /\ ret = P

\* C11 (as stated; violated): when terminal() answered Emacs, rgb() returns
\* the Unsupported error whatever COLORFGBG holds.
C11_EmacsIsUnsupported ==
    (op = "rgb" /\ term = "Emacs" /\ pc = "idle") => ret = ErrUnsupported

\* C11 (amended): when terminal() answered Emacs, rgb() writes no query and
\* enters neither from_xterm nor the read loop; its primary result is the
\* Unsupported error, and it returns the colour of COLORFGBG when that
\* fallback succeeds and the Unsupported error otherwise.
C11_EmacsNoQueryThenFallback ==
    (op = "rgb" /\ term = "Emacs") =>
        /\ pc \in {"r_match", "r_fallback", "idle"}
        /\ out = <<>> /\ raw = rawAtCall /\ guardLog = <<>>
        /\ pc \in {"r_fallback", "idle"} => P = ErrUnsupported
        /\ pc = "idle" => ret = (IF F.tag = "ok" THEN F ELSE ErrUnsupported)

\* Emacs with COLORFGBG = "0;15": rgb() returned the palette's white
C11_Witness ==
    /\ op = "rgb" /\ term = "Emacs" /\ pc = "idle"
    /\ P = ErrUnsupported
    /\ ret = OkRgb(65280, 65280, 65280)

\* the variable v is set and its text begins with w
BeginsWith(v, w) ==
    v.set /\ Len(v.text) >= Len(w) /\ \A k \in 1..Len(w) : v.text[k] = w[k]

TmuxDash == <<"t", "m", "u", "x", "-">>
ScreenWord == <<"s", "c", "r", "e", "e", "n">>

\* thread t has called terminal() and has its answer
TerminalReturned(t) == thr[t].op = "terminal" /\ thr[t].pc = "idle"

\* C12: on POSIX terminal() answers by the first rule that matches:
\* INSIDE_EMACS set gives Emacs; else TMUX set or TERM beginning with "tmux-"
\* gives Tmux; else TERM beginning with "screen" gives Screen; else
\* XtermCompatible.  It never answers Windows.
C12_PosixPrecedence ==
    plat = "posix" =>
        \A t \in Threads : TerminalReturned(t) =>
            LET e == thr[t].env
                tmuxish == e.tmux \/ BeginsWith(e.term, TmuxDash)
                screenish == BeginsWith(e.term, ScreenWord)
            IN  /\ e.emacs => thr[t].ret = "Emacs"
                /\ (~e.emacs /\ tmuxish) => thr[t].ret = "Tmux"
                /\ (~e.emacs /\ ~tmuxish /\ screenish) => thr[t].ret = "Screen"
                /\ (~e.emacs /\ ~tmuxish /\ ~screenish) => thr[t].ret = "XtermCompatible"
                /\ thr[t].ret # "Windows"

\* INSIDE_EMACS and TMUX both set, TERM = screen.x: Emacs; and TERM = tmux-x
\* alone in another call: Tmux
C12_Witness ==
    /\ plat = "posix"
    /\ TerminalReturned("t1") /\ TerminalReturned("t2")
    /\ thr["t1"].env = [emacs |-> TRUE, tmux |-> TRUE, vscode |-> FALSE,
                        term |-> Var(<<"s", "c", "r", "e", "e", "n", ".", "x">>)]
    /\ thr["t1"].ret = "Emacs"
    /\ thr["t2"].env = [emacs |-> FALSE, tmux |-> FALSE, vscode |-> FALSE,
                        term |-> Var(<<"t", "m", "u", "x", "-", "x">>)]
    /\ thr["t2"].ret = "Tmux"

\* C13 (as stated; violated): on Windows terminal() answers by the first rule
\* that matches: INSIDE_EMACS set gives Emacs, also when TERM_PROGRAM is
\* "vscode"; else TERM_PROGRAM = "vscode" gives XtermCompatible; else TMUX set
\* or TERM beginning with "tmux-" gives Tmux; else TERM beginning with
\* "screen" gives Screen; else XtermCompatible when VT processing is enabled
\* and Windows when it is not.
C13_WindowsPrecedence ==
    plat = "windows" =>
        \A t \in Threads : TerminalReturned(t) =>
            LET e == thr[t].env
                tmuxish == e.tmux \/ BeginsWith(e.term, TmuxDash)
                screenish == BeginsWith(e.term, ScreenWord)
            IN  /\ e.emacs => thr[t].ret = "Emacs"
                /\ (~e.emacs /\ e.vscode) => thr[t].ret = "XtermCompatible"
                /\ (~e.emacs /\ ~e.vscode /\ tmuxish) => thr[t].ret = "Tmux"
                /\ (~e.emacs /\ ~e.vscode /\ ~tmuxish /\ screenish)
                      => thr[t].ret = "Screen"
                /\ (~e.emacs /\ ~e.vscode /\ ~tmuxish /\ ~screenish)
                      => thr[t].ret = (IF thr[t].got = "yes" THEN "XtermCompatible"
                                       ELSE "Windows")

\* C19 (as stated; violated): terminal() is deterministic (two calls in the
\* same environment give the same answer) and pure: no step of a call of
\* terminal() changes the console's mode.
C19_TerminalIsPure ==
    /\ [](\A t, u \in Threads :
             (TerminalReturned(t) /\ TerminalReturned(u) /\ thr[t].env = thr[u].env)
                 => thr[t].ret = thr[u].ret)
    /\ [][(\E t \in Threads : thr'[t] # thr[t] /\ thr'[t].op = "terminal")
            => conVt' = conVt]_vars

\* C20: the closure of get_or_init runs at most once in the process, the
\* stored value never changes once it is there, and every call of
\* enable_virtual_terminal_processing() returns the stored value, whatever
\* the console's mode is by then and however the threads interleave.
C20_ProbeOnce ==
    /\ [](probes <= 1)
    /\ [](\A t \in Threads : thr[t].got # "none" => thr[t].got = vtMemo)
    /\ [][vtMemo # "unset" => vtMemo' = vtMemo]_vars

\* both threads were handed "enabled" by one run of the closure, one of them
\* from inside from_xterm, and the console's VT mode is off by now
C20_Witness ==
    /\ probes = 1 /\ vtMemo = "yes" /\ conVt = FALSE
    /\ thr["t1"].got = "yes" /\ thr["t1"].op = "terminal" /\ thr["t1"].pc = "idle"
    /\ thr["t2"].got = "yes" /\ thr["t2"].op = "from_xterm" /\ thr["t2"].pc = "idle"

\* the three groups of a colour text: what stands between the '/'
GroupsIn(t) ==
    <<Between(t, 0, SlashNo(t, 1)),
      Between(t, SlashNo(t, 1), SlashNo(t, 2)),
      Between(t, SlashNo(t, 2), SlashNo(t, 3))>>

\* C14: decode_x11_color turns a group of L hex digits, 1 <= L <= 4, into
\* value * 16^(4 - L): 1 gives 0x1000, 11 gives 0x1100, 111 gives 0x1110, 1111
\* gives 0x1111; every channel lies in 0..65535 and is a multiple of
\* 16^(4 - L) whose quotient is the value (no set bit is dropped).
C14_ScaleLaw ==
    (op = "decode" /\ ret # NoRes /\ Cardinality(Slashes(input.text)) >= 2
        /\ ThreeHexGroups(GroupsIn(input.text))) =>
        LET g == GroupsIn(input.text)
        IN  /\ ret.tag = "ok"
            /\ \A k \in 1..3 :
                   /\ ret.val[k] = RefVal(g[k]) * 16 ^ (4 - Len(g[k]))
                   /\ ret.val[k] \in 0..65535
                   /\ ret.val[k] \div (16 ^ (4 - Len(g[k]))) = RefVal(g[k])
            /\ g[1] = <<"1">> => ret.val[1] = 4096
            /\ g[1] = <<"1", "1">> => ret.val[1] = 4352
            /\ g[1] = <<"1", "1", "1">> => ret.val[1] = 4368
            /\ g[1] = <<"1", "1", "1", "1">> => ret.val[1] = 4369

\* 1/22/f1f decoded: 0x1000, 0x2200, 0xf1f0
C14_Witness ==
    /\ op = "decode"
    /\ input = Var(<<"1", "/", "2", "2", "/", "f", "1", "f">>)
    /\ ret = OkRgb(4096, 8704, 61936)

\* the index a decimal text names
RECURSIVE RefDec(_)
RefDec(t) ==
    IF t = <<>> THEN 0
    ELSE 10 * RefDec(SubSeq(t, 1, Len(t) - 1)) + RefDigits[t[Len(t)]]

\* the positions of ';' in t, and the second field of t
Semis(t) == {i \in 1..Len(t) : t[i] = ";"}
SecondField(t) ==
    LET a == CHOOSE i \in Semis(t) : \A j \in Semis(t) : i <= j
        later == {i \in Semis(t) : i > a}
        b == IF later = {} THEN Len(t) + 1
             ELSE CHOOSE i \in later : \A j \in later : i <= j
    IN  SubSeq(t, a + 1, b - 1)

\* one or two decimal digits that name a palette index
IsIndex(f) ==
    /\ Len(f) \in 1..2
    /\ \A k \in 1..Len(f) : f[k] \in {"0", "1", "2", "3", "4", "5", "6", "7", "8", "9"}
    /\ RefDec(f) \in 0..15

\* C17: from_env_colorfgbg takes the second ';'-separated field of COLORFGBG
\* as the background index and, for an index in 0..15, returns the palette
\* entry with each channel multiplied by 256, each fitting in 16 bits; what
\* stands before the first ';' and after the second has no influence.
\* "15;0" gives Rgb{0,0,0} and "0;15" gives Rgb{0xff00,0xff00,0xff00}.
C17_ColorFgBg ==
    (op = "colorfgbg" /\ ret # NoRes /\ input.set /\ Semis(input.text) # {}
        /\ IsIndex(SecondField(input.text))) =>
        LET c == RxvtPalette[RefDec(SecondField(input.text)) + 1]
        IN  /\ ret = OkRgb(256 * c[1], 256 * c[2], 256 * c[3])
            /\ \A k \in 1..3 : ret.val[k] \in 0..65535
            /\ input.text = <<"1", "5", ";", "0">> => ret = OkRgb(0, 0, 0)
            /\ input.text = <<"0", ";", "1", "5">> => ret = OkRgb(65280, 65280, 65280)

\* COLORFGBG = "15;12;x": the entry 12 of the palette, whatever follows
C17_Witness ==
    /\ op = "colorfgbg"
    /\ input = Var(<<"1", "5", ";", "1", "2", ";", "x">>)
    /\ ret = OkRgb(23552, 23552, 65280)

\* C15 (as stated; violated): whatever text the read loop has gathered,
\* query_xterm's decoding of it (extract_rgb and decode_x11_color at a
\* terminator, decode_unterminated before them at the deadline) ends with a
\* colour or a typed error, never with a panic.
C15_DecodersNeverPanic ==
    (op = "query" /\ pc = "idle") => ret.tag # "panic"

\* the Rgb that rgb() resolved for theme(): the primary when it succeeded,
\* else the fallback
ResolvedRgb == IF P.tag = "ok" THEN P.val ELSE F.val

\* C16: when rgb() resolved an Rgb, theme() returns Light if and only if
\* 299 r + 587 g + 114 b > 32768000 and Dark otherwise: black is Dark, white
\* is Light, and r = g = b = 32768 (luminance exactly 32768) is Dark.
C16_ThemeByLuminance ==
    (op = "theme" /\ pc = "idle" /\ (P.tag = "ok" \/ F.tag = "ok")) =>
        LET c == ResolvedRgb
        IN  /\ ret.tag = "theme"
            /\ ret.val[1] \in {"Light", "Dark"}
            /\ ret.val[1] = "Light" <=> 299 * c[1] + 587 * c[2] + 114 * c[3] > 32768000
            /\ c = <<0, 0, 0>> => ret.val[1] = "Dark"
            /\ c = <<65535, 65535, 65535>> => ret.val[1] = "Light"
            /\ c = <<32768, 32768, 32768>> => ret.val[1] = "Dark"

\* the terminal answered 8000/8000/8000 and theme() returned Dark
C16_Witness ==
    /\ op = "theme" /\ pc = "idle"
    /\ response = <<"r", "g", "b", ":", "8", "0", "0", "0", "/", "8", "0", "0", "0",
                    "/", "8", "0", "0", "0">>
    /\ P = OkRgb(32768, 32768, 32768)
    /\ ret = Res("theme", <<"Dark">>)

\* from_xterm has just returned Unsupported because a stream is no terminal
\* (the only way it returns that error)
NotATerminal == op = "rgb" /\ term # "Emacs" /\ P = ErrUnsupported

\* C18: when stdin, stdout or stderr is no terminal, from_xterm returns
\* Unsupported having done nothing: raw_before was not read, the raw-mode
\* flag is as it was, nothing was written, no event was read, and the guard
\* (restoration and drain) did not run.
C18_NotATerminalTouchesNothing ==
    /\ [](NotATerminal =>
             /\ pc \in {"r_fallback", "idle"}
             /\ raw = rawAtCall /\ rawBefore = FALSE
             /\ out = <<>> /\ response = <<>> /\ lastEvent = NoEvent
             /\ guardLog = <<>> /\ res = NoRes /\ elapsed = 0)
    /\ [][(pc = "fx_entry" /\ P' = ErrUnsupported) =>
             /\ pc' = "r_fallback"
             /\ UNCHANGED <<raw, rawBefore, out, response, lastEvent, guardLog, res,
                            vtMemo, conVt>>]_vars

\* raw mode was on when rgb() was called; from_xterm returned Unsupported and
\* rgb() has returned
C18_Witness ==
    /\ NotATerminal /\ pc = "idle"
    /\ raw = TRUE /\ rawAtCall = TRUE /\ rawBefore = FALSE
    /\ vtMemo = "unset"

C27_FailedStdinLeavesFd ==
    (fd0.adapter \in {"failed_mode", "failed_register"} /\ fd0.wasOpen) =>
        /\ fd0.open
        /\ fd0.nonblock = fd0.before

----------------------------------------------------------------------------
(* The query on the wire *)

\* OSC 11 ; ? terminated by BEL, as the multiplexers pass it on, and by ST
OscBel == <<"ESC", "]", "1", "1", ";", "?", "BEL">>
OscSt == <<"ESC", "]", "1", "1", ";", "?", "ESC", "\\">>
StringTerminator == <<"ESC", "\\">>

\* the sequence each family is to receive
SequenceFor(t) ==
    CASE t = "Tmux" -> <<"ESC", "P", "t", "m", "u", "x", ";", "ESC">> \o OscBel
                          \o StringTerminator
      [] t = "Screen" -> <<"ESC", "P">> \o OscBel \o StringTerminator
      [] OTHER -> OscSt

\* the writer has seen the whole query and one flush, and nothing else
Sent == out = <<SequenceFor(term), <<"flush">>>>

\* rgb(), theme() or the harness is in, or has been through, query_xterm
InQueryCall == op \in {"rgb", "theme", "query"}

\* C22: query_xterm writes the escape sequence of the terminal family once and
\* flushes once, both before the first poll: while it polls, the writer has
\* seen exactly that sequence and one flush, and no later step writes; when
\* the write or the flush fails, the call returns Io and no event was read.
C22_QueryWrittenOnce ==
    /\ [](InQueryCall =>
            /\ out \in {<<>>, <<SequenceFor(term)>>, <<SequenceFor(term), <<"flush">>>>}
            /\ pc \in {"q_loop", "q_poll"} => Sent
            /\ (lastEvent # NoEvent \/ response # <<>>) => Sent)
    /\ [][(InQueryCall /\ pc = "q_send" /\ ~Sent') =>
            /\ lastEvent' = NoEvent /\ response' = <<>> /\ endedBy' = "error"
            /\ IF op = "query" THEN ret' = ErrIo ELSE res' = ErrIo]_vars
    /\ [][(InQueryCall /\ pc \in {"q_loop", "q_poll"}) => out' = out]_vars

\* under tmux the wrapped sequence and the flush went out, and an event was
\* read afterwards
C22_Witness ==
    /\ op = "rgb" /\ term = "Tmux" /\ pc = "q_loop"
    /\ out = <<SequenceFor("Tmux"), <<"flush">>>>
    /\ Len(out[1]) = 17
    /\ lastEvent # NoEvent

----------------------------------------------------------------------------
(* The response buffer *)

\* the string terminator as it is decoded (Alt+\, or \ alone), and BEL as
\* it is decoded (Ctrl+g, or the character 0x07)
EndsReply(e) ==
    \/ e = Key("\\", "ALT") \/ e = Key("\\", "NONE")
    \/ e = Key("g", "CONTROL") \/ e = Key("BEL", "NONE")

\* a key event that carries a character, has no modifier and ends no reply
IsReplyChar(e) ==
    e.kind = "key" /\ e.char /\ e.mods = "NONE" /\ ~EndsReply(e)

\* C23: within one query the response buffer is, in arrival order, exactly
\* the characters of the received key events that have no modifier and are
\* not terminators.  Step by step: the buffer is empty when the loop starts;
\* a poll that brings such an event appends its character and the query goes
\* on; a poll that brings any other event, or none, leaves the buffer as it
\* was, and unless the event is a terminator the query goes on; nothing else
\* changes the buffer.
C23_BufferIsUnmodifiedChars ==
    /\ [][pc = "q_send" => response' = <<>>]_vars
    /\ [][pc = "q_poll" =>
            LET e == lastEvent'
            IN  /\ e = NoEvent => response' = response
                /\ (e # NoEvent /\ IsReplyChar(e)) =>
                      /\ response' = Append(response, e.c)
                      /\ pc' = "q_loop" /\ endedBy' = endedBy
                /\ (e # NoEvent /\ ~IsReplyChar(e)) => response' = response
                /\ (e # NoEvent /\ ~IsReplyChar(e) /\ ~EndsReply(e)) =>
                      /\ pc' = "q_loop" /\ endedBy' = endedBy
                      /\ ret' = ret /\ res' = res]_vars
    /\ [][(pc \in {"q_loop", "g_cmp", "g_drain", "r_fallback"}
             \/ (pc = "idle" /\ pc' = "idle")) => response' = response]_vars

\* Shift+x arrived after ";rgb:f" had been collected: the buffer kept its
\* six characters and the query went on
C23_Witness ==
    /\ op = "query" /\ pc = "q_loop"
    /\ lastEvent = Key("x", "SHIFT")
    /\ response = <<";">> \o Marker \o <<"f">>

----------------------------------------------------------------------------
(* A terminator after a malformed reply *)

\* a group that is no hex number: empty, or with a character that is no hex digit
NotHex(g) == g = <<>> \/ \E k \in 1..Len(g) : g[k] \notin DOMAIN RefDigits

\* no "rgb:", or "rgb:" followed by fewer than three groups, or by three of
\* which one is no hex number
Malformed(s) ==
    \/ ~HasMarker(s)
    \/ /\ HasMarker(s)
       /\ \/ Cardinality(Slashes(AfterMarker(s))) < 2
          \/ \E k \in 1..3 : NotHex(GroupsOf(s)[k])

\* C24 (as stated; violated): a terminator that arrives while the buffer is
\* malformed ends query_xterm at once with a Parse error: the call has
\* returned, it was the terminator that ended it, and the result is neither
\* Timeout nor anything but Parse.
C24_MalformedIsParseAtOnce ==
    (op = "query" /\ lastEvent # NoEvent /\ EndsReply(lastEvent) /\ Malformed(response)) =>
        /\ pc = "idle" /\ endedBy = "terminator"
        /\ ret = ErrParse

----------------------------------------------------------------------------
(* Success before the deadline *)

\* what query_xterm returned: to the harness, or to from_xterm
QueryResult == IF op = "query" THEN ret ELSE res

\* the last poll brought a terminator
TerminatorRead == lastEvent # NoEvent /\ EndsReply(lastEvent)

\* C25: query_xterm returns a colour before the deadline only in answer to a
\* terminator.  A colour it returned came with a terminator, or at a deadline
\* check made after the timeout had passed; a poll that brings no terminator
\* never ends the query with a colour, however complete the buffer is; and
\* the deadline branch (the salvage) is taken only at the head of the loop
\* and only once elapsed > timeout.
C25_ColourOnlyOnTerminatorOrDeadline ==
    /\ []((InQueryCall /\ endedBy # "none" /\ QueryResult.tag = "ok") =>
            \/ endedBy = "terminator" /\ TerminatorRead
            \/ endedBy = "deadline" /\ elapsed > timeout)
    /\ [][(InQueryCall /\ pc = "q_poll"
             /\ ~(lastEvent' # NoEvent /\ EndsReply(lastEvent'))) =>
               pc' = "q_loop" \/ QueryResult' = ErrIo]_vars
    /\ [][(InQueryCall /\ endedBy' = "deadline" /\ endedBy # "deadline") =>
               pc = "q_loop" /\ elapsed > timeout]_vars

\* the whole reply is in the buffer, the clock has reached the timeout but not
\* passed it, and the query is still polling
C25_Witness ==
    /\ op = "rgb" /\ pc = "q_poll"
    /\ response = Marker \o <<"f", "/", "f", "/", "f">>
    /\ timeout = MaxTimeout /\ elapsed = timeout
    /\ endedBy = "none" /\ res = NoRes

----------------------------------------------------------------------------
(* Raw mode during a call made in raw mode *)

\* C26 (as stated; violated): when raw mode was enabled at the moment rgb() or
\* latency() was called, it is enabled in every state of the call up to its
\* return: no step switches it off and leaves the guard to switch it on again.
C26_RawStaysEnabledDuringCall ==
    (op \in {"rgb", "latency"} /\ rawAtCall /\ pc # "idle") => raw

====
